---- MODULE Spec2Model ----
(***************************************************************************)
(* Model of the Security-Toolkit server (src/server.py): the pattern       *)
(* registry, mask_value, perform_scan, and the three tools smart_scan,     *)
(* scan_directory and validate_key.  Python strings are TLA+ strings; the  *)
(* character at index i of s is SubSeq(s, i, i).                           *)
(***************************************************************************)
EXTENDS Integers, Sequences, FiniteSets, TLC

(***************************************************************************)
(* Bounds of the model.                                                    *)
(***************************************************************************)
\* Number of segments joined into a text handed to perform_scan.
MaxSegs == 2
\* Longest value handed directly to mask_value.
MaxValLen == 14
\* Number of directories below the root of a scanned tree.
MaxDirs == 2

(***************************************************************************)
(* String helpers (Python str semantics).                                  *)
(***************************************************************************)
RECURSIVE Repeat(_, _)
\* s * n
Repeat(s, n) == IF n <= 0 THEN "" ELSE s \o Repeat(s, n - 1)

\* s[i] for a 1-based index inside the string
CharAt(s, i) == SubSeq(s, i, i)

\* s.startswith(p, i): p occurs in s at 1-based position i
OccursAt(s, p, i) ==
    /\ i >= 1
    /\ i + Len(p) - 1 <= Len(s)
    /\ SubSeq(s, i, i + Len(p) - 1) = p

\* s.endswith(p)
EndsWith(s, p) == Len(p) <= Len(s) /\ SubSeq(s, Len(s) - Len(p) + 1, Len(s)) = p

\* p in s
Contains(s, p) == \E i \in 1..(Len(s) + 1) : OccursAt(s, p, i)

LowerCase == <<"a","b","c","d","e","f","g","h","i","j","k","l","m",
               "n","o","p","q","r","s","t","u","v","w","x","y","z">>
UpperCase == <<"A","B","C","D","E","F","G","H","I","J","K","L","M",
               "N","O","P","Q","R","S","T","U","V","W","X","Y","Z">>

\* c.lower() for one character
LowerChar(c) ==
    IF \E i \in 1..26 : UpperCase[i] = c
    THEN LowerCase[CHOOSE i \in 1..26 : UpperCase[i] = c]
    ELSE c

RECURSIVE LowerFrom(_, _)
LowerFrom(s, i) ==
    IF i > Len(s) THEN "" ELSE LowerChar(CharAt(s, i)) \o LowerFrom(s, i + 1)

\* s.lower()
Lower(s) == LowerFrom(s, 1)

(***************************************************************************)
(* Character classes of the regular expressions of PATTERNS.               *)
(***************************************************************************)
Letters == {LowerCase[i] : i \in 1..26} \cup {UpperCase[i] : i \in 1..26}
Digits == {"0","1","2","3","4","5","6","7","8","9"}
\* [a-zA-Z0-9-]
AlnumHyphen == Letters \cup Digits \cup {"-"}
\* [a-zA-Z0-9\-_]
AlnumHyphenUnderscore == AlnumHyphen \cup {"_"}
\* [a-fA-F0-9]
HexDigit == Digits \cup {"a","b","c","d","e","f","A","B","C","D","E","F"}
\* \s
Whitespace == {" ", "\t", "\n", "\r", "\f"}
\* ['\"]
Quote == {"'", "\""}

(***************************************************************************)
(* A regular expression is a sequence of items.  An item is an ordered     *)
(* alternation of literals, or a greedy repetition {min,max} of a          *)
(* character class (max = Unbounded for {min,}); cap marks the item that   *)
(* forms capture group 1.                                                  *)
(***************************************************************************)
Unbounded == -1

Alt(lits) == [kind |-> "alt", alts |-> lits, cls |-> {}, min |-> 0, max |-> 0, cap |-> FALSE]
Lit(s) == Alt(<<s>>)
Rep(c, lo, hi) == [kind |-> "rep", alts |-> <<>>, cls |-> c, min |-> lo, max |-> hi, cap |-> FALSE]
Group(item) == [item EXCEPT !.cap = TRUE]

\* Quantifier counts of the registry's rules.
OpenAIMinLen == 40
AnthropicMinLen == 50
GeminiMinLen == 30
AzureKeyLen == 32

\* PATTERNS.items(), in insertion order
PATTERNS == <<
    [provider |-> "OpenAI",
     regex |-> <<Lit("sk-"), Rep(AlnumHyphen, OpenAIMinLen, Unbounded)>>,
     group |-> 0],
    [provider |-> "Anthropic",
     regex |-> <<Lit("sk-ant-api03-"), Rep(AlnumHyphenUnderscore, AnthropicMinLen, Unbounded)>>,
     group |-> 0],
    [provider |-> "Google Gemini",
     regex |-> <<Lit("AIzaSy"), Rep(AlnumHyphenUnderscore, GeminiMinLen, Unbounded)>>,
     group |-> 0],
    [provider |-> "Azure OpenAI Key",
     regex |-> <<Alt(<<"api", "subscription", "azure">>), Rep({"-", "_"}, 1, 1), Lit("key"),
                 Rep(Whitespace, 0, Unbounded), Rep({":", "="}, 1, 1),
                 Rep(Whitespace, 0, Unbounded), Rep(Quote, 1, 1),
                 Group(Rep(HexDigit, AzureKeyLen, AzureKeyLen)), Rep(Quote, 1, 1)>>,
     group |-> 1],
    [provider |-> "Azure Endpoint",
     regex |-> <<Lit("https://"), Rep(AlnumHyphen, 1, Unbounded), Lit(".openai.azure.com"),
                 Rep({"/"}, 0, 1)>>,
     group |-> 0]
>>

(***************************************************************************)
(* Backtracking matcher: the match object of re.match at a position.       *)
(* A match is [ok, start, end, gs, ge]: the whole match is                 *)
(* text[start..end-1], capture group 1 is text[gs..ge-1].                  *)
(***************************************************************************)
NoMatch == [ok |-> FALSE, start |-> 0, end |-> 0, gs |-> 0, ge |-> 0]

\* number of consecutive characters of cls in text from pos, at most limit
RunLen(cls, text, pos, limit) ==
    LET stops == {i \in pos..(Len(text) + 1) : i > Len(text) \/ CharAt(text, i) \notin cls}
        run == (CHOOSE i \in stops : \A j \in stops : i <= j) - pos
    IN IF limit = Unbounded \/ run <= limit THEN run ELSE limit

RECURSIVE MatchItems(_, _, _, _, _, _, _)
RECURSIVE TryAlts(_, _, _, _, _, _, _, _)
RECURSIVE TryRep(_, _, _, _, _, _, _, _)

\* items[k..] matched against text from pos; start, gs, ge are what was fixed so far
MatchItems(items, k, text, start, pos, gs, ge) ==
    IF k > Len(items)
    THEN [ok |-> TRUE, start |-> start, end |-> pos, gs |-> gs, ge |-> ge]
    ELSE IF items[k].kind = "alt"
         THEN TryAlts(items, k, 1, text, start, pos, gs, ge)
         ELSE TryRep(items, k, RunLen(items[k].cls, text, pos, items[k].max),
                     text, start, pos, gs, ge)

\* alternatives in order, the first that lets the rest match wins
TryAlts(items, k, a, text, start, pos, gs, ge) ==
    IF a > Len(items[k].alts)
    THEN NoMatch
    ELSE LET lit == items[k].alts[a]
             m == IF OccursAt(text, lit, pos)
                  THEN MatchItems(items, k + 1, text, start, pos + Len(lit), gs, ge)
                  ELSE NoMatch
         IN IF m.ok THEN m ELSE TryAlts(items, k, a + 1, text, start, pos, gs, ge)

\* greedy repetition: n characters first, then fewer down to min
TryRep(items, k, n, text, start, pos, gs, ge) ==
    IF n < items[k].min
    THEN NoMatch
    ELSE LET m == IF items[k].cap
                  THEN MatchItems(items, k + 1, text, start, pos + n, pos, pos + n)
                  ELSE MatchItems(items, k + 1, text, start, pos + n, gs, ge)
         IN IF m.ok THEN m ELSE TryRep(items, k, n - 1, text, start, pos, gs, ge)

MatchAt(regex, text, pos) == MatchItems(regex, 1, text, pos, pos, 0, 0)

\* the leftmost match of regex in text starting at or after pos (re.search from pos)
SearchFrom(regex, text, pos) ==
    LET hits == {i \in pos..Len(text) : MatchAt(regex, text, i).ok}
    IN IF hits = {} THEN NoMatch
       ELSE MatchAt(regex, text, CHOOSE i \in hits : \A j \in hits : i <= j)

RECURSIVE FindFrom(_, _, _)
\* the matches of regex in text at or after pos, left to right, non-overlapping
FindFrom(regex, text, pos) ==
    LET m == SearchFrom(regex, text, pos)
    IN IF m.ok
       THEN <<m>> \o FindFrom(regex, text, IF m.end > m.start THEN m.end ELSE m.start + 1)
       ELSE <<>>

\* a scan that stops at the first match (re.search instead of re.finditer)
finditer_first(regex, text) ==
    LET all == FindFrom(regex, text, 1)
    IN IF all = <<>> THEN <<>> ELSE <<all[1]>>

\* list(re.finditer(regex, text))
finditer(regex, text) == FindFrom(regex, text, 1)

\* match.group(g)
MatchGroup(text, m, g) ==
    IF g = 0 THEN SubSeq(text, m.start, m.end - 1) ELSE SubSeq(text, m.gs, m.ge - 1)

(***************************************************************************)
(* mask_value and perform_scan.                                            *)
(***************************************************************************)
MaskKeepAll == 12
MaskHead == 8
MaskTail == 4

\* a masking that keeps values of up to MaskHead characters only
mask_value_short(value) ==
    IF Len(value) <= MaskHead THEN value
    ELSE SubSeq(value, 1, MaskHead) \o "..." \o SubSeq(value, Len(value) - MaskTail + 1, Len(value))

mask_value(value) ==
    IF Len(value) <= MaskKeepAll THEN value
    ELSE SubSeq(value, 1, MaskHead) \o "..." \o SubSeq(value, Len(value) - MaskTail + 1, Len(value))

\* the dict appended for one match
Finding(provider, filename, raw_value) ==
    [provider |-> provider, file |-> filename,
     masked_value |-> mask_value(raw_value), raw_value |-> raw_value]

\* the findings of one rule, in match order
RuleFindings(rule, text, filename) ==
    LET ms == finditer(rule.regex, text)
    IN [i \in 1..Len(ms) |-> Finding(rule.provider, filename, MatchGroup(text, ms[i], rule.group))]

RECURSIVE ScanRules(_, _, _)
ScanRules(k, text, filename) ==
    IF k > Len(PATTERNS) THEN <<>>
    ELSE RuleFindings(PATTERNS[k], text, filename) \o ScanRules(k + 1, text, filename)

perform_scan(text, filename) == ScanRules(1, text, filename)

(***************************************************************************)
(* State.                                                                  *)
(***************************************************************************)
VARIABLES
    pc,             \* control location of the request being served
    op,             \* the operation being served
    value,          \* mask_value: argument
    masked,         \* mask_value: return value
    segs,           \* perform_scan: the segments the text was built from
    text,           \* perform_scan: the text scanned
    findings,       \* perform_scan: the list returned
    target,         \* smart_scan: argument
    content,        \* smart_scan: content taken from the sampling result
    caught,         \* smart_scan: str(e) of the exception the except clause caught
    fs,             \* scan_directory: the tree below base_path
    stack,          \* scan_directory: directories os.walk has still to yield
    root,           \* scan_directory: directory of the current os.walk triple
    files,          \* scan_directory: files of the current triple not yet handled
    all_findings,   \* scan_directory: the list built by the walk
    opened,         \* scan_directory: every open() call made, in order
    scanned,        \* the source labels perform_scan was called with by a tool, in order
    path,           \* scan_directory: argument
    provider,       \* validate_key: argument
    azure_endpoint, \* validate_key: argument
    requests,       \* validate_key: URLs of the client.get calls issued
    response,       \* validate_key: status codes of the responses received
    result          \* the dict handed to json.dumps and returned to the host

vars == <<pc, op, value, masked, segs, text, findings, target, content, caught, fs, stack,
          root, files, all_findings, opened, scanned, path, provider, azure_endpoint,
          requests, response, result>>

\* Python None
None == "<None>"

\* placeholder for "no tree"
NoTree == [dirs |-> {}, names |-> <<>>, unreadable |-> {}]

NoResult == [kind |-> "none"]

Init ==
    /\ pc = "idle"
    /\ op = "none"
    /\ value = ""
    /\ masked = ""
    /\ segs = <<>>
    /\ text = ""
    /\ findings = <<>>
    /\ target = ""
    /\ content = None
    /\ caught = ""
    /\ fs = NoTree
    /\ stack = <<>>
    /\ root = <<>>
    /\ files = <<>>
    /\ all_findings = <<>>
    /\ opened = <<>>
    /\ scanned = <<>>
    /\ path = ""
    /\ provider = ""
    /\ azure_endpoint = None
    /\ requests = <<>>
    /\ response = <<>>
    /\ result = NoResult

(***************************************************************************)
(* mask_value and perform_scan called on their own.                        *)
(***************************************************************************)
SampleValue == "sk-proj-0123456789abcdefXYZ"

\* the values handed to mask_value: substrings of SampleValue of up to MaxValLen characters
ValueSamples ==
    {SubSeq(SampleValue, c[1], c[1] + c[2] - 1) :
        c \in {d \in (1..Len(SampleValue)) \X (0..MaxValLen) : d[1] + d[2] - 1 <= Len(SampleValue)}}

CallMaskValue ==
    /\ pc = "idle"
    /\ \E v \in ValueSamples :
        /\ value' = v
        /\ masked' = mask_value(v)
    /\ op' = "mask_value"
    /\ pc' = "returned"
    /\ UNCHANGED <<segs, text, findings, target, content, caught, fs, stack, root, files,
                   all_findings, opened, scanned, path, provider, azure_endpoint, requests,
                   response, result>>

\* Sample credentials, one or more characters beyond and one short of each rule.
OpenAIKey == "sk-" \o Repeat("x", OpenAIMinLen)
OpenAIShort == "sk-" \o Repeat("y", OpenAIMinLen - 1)
AnthropicKey == "sk-ant-api03-" \o Repeat("a_", AnthropicMinLen \div 2)
AnthropicPlainKey == "sk-ant-api03-" \o Repeat("b", AnthropicMinLen + 1)
GeminiKey == "AIzaSy" \o Repeat("G", GeminiMinLen)
AzureHex == Repeat("0aF9", AzureKeyLen \div 4)
AzureEndpointUrl == "https://my-res.openai.azure.com/"

Hit(p, raw) == [provider |-> p, raw_value |-> raw]

\* Segments of text, each with the matches it holds by construction:
\* txt is the segment, hits the (provider, captured text) pairs in it.
Segments == <<
    [txt |-> "DEBUG = True", hits |-> <<>>],
    [txt |-> "OPENAI_API_KEY=" \o OpenAIKey, hits |-> <<Hit("OpenAI", OpenAIKey)>>],
    [txt |-> "key: " \o OpenAIShort, hits |-> <<>>],
    [txt |-> "claude = '" \o AnthropicKey \o "'", hits |-> <<Hit("Anthropic", AnthropicKey)>>],
    [txt |-> AnthropicPlainKey \o " # prod",
     hits |-> <<Hit("OpenAI", AnthropicPlainKey), Hit("Anthropic", AnthropicPlainKey)>>],
    [txt |-> "{\"gemini\": \"" \o GeminiKey \o "\"}", hits |-> <<Hit("Google Gemini", GeminiKey)>>],
    [txt |-> "subscription_key = \"" \o AzureHex \o "\"", hits |-> <<Hit("Azure OpenAI Key", AzureHex)>>],
    [txt |-> "endpoint: " \o AzureEndpointUrl \o "openai",
     hits |-> <<Hit("Azure Endpoint", AzureEndpointUrl)>>],
    [txt |-> OpenAIKey \o " " \o OpenAIKey \o "Z",
     hits |-> <<Hit("OpenAI", OpenAIKey), Hit("OpenAI", OpenAIKey \o "Z")>>]
>>

SegChoices == UNION {[1..n -> 1..Len(Segments)] : n \in 0..MaxSegs}

RECURSIVE JoinLines(_, _)
\* the segments chosen by ss[k..], one per line
JoinLines(ss, k) ==
    IF k > Len(ss) THEN ""
    ELSE Segments[ss[k]].txt \o (IF k < Len(ss) THEN "\n" ELSE "") \o JoinLines(ss, k + 1)

CallPerformScan ==
    /\ pc = "idle"
    /\ \E ss \in SegChoices :
        /\ segs' = ss
        /\ text' = JoinLines(ss, 1)
        /\ findings' = perform_scan(JoinLines(ss, 1), "input")
    /\ op' = "perform_scan"
    /\ pc' = "returned"
    /\ UNCHANGED <<value, masked, target, content, caught, fs, stack, root, files,
                   all_findings, opened, scanned, path, provider, azure_endpoint, requests,
                   response, result>>

(***************************************************************************)
(* validate_key.  The request is served in steps that end at its awaits.   *)
(***************************************************************************)
\* the error dict of a tool
ErrorResult(msg) == [kind |-> "error", error |-> msg]

\* not x, for x a str or None
Falsy(x) == x = None \/ x = ""

RECURSIVE RStrip(_, _)
\* s.rstrip(c)
RStrip(s, c) ==
    IF Len(s) > 0 /\ CharAt(s, Len(s)) = c THEN RStrip(SubSeq(s, 1, Len(s) - 1), c) ELSE s

\* a dispatch that probes Azure whether or not an endpoint was given
validate_route_unchecked(prov, endpoint) ==
    IF prov = "OpenAI" THEN [act |-> "get", url |-> "https://api.openai.com/v1/models"]
    ELSE IF prov = "Anthropic" THEN [act |-> "get", url |-> "https://api.anthropic.com/v1/models"]
    ELSE IF prov \in {"Azure OpenAI", "Azure OpenAI Key"}
    THEN [act |-> "get",
          url |-> (IF Falsy(endpoint) THEN "" ELSE RStrip(endpoint, "/"))
                  \o "/openai/models?api-version=2024-02-01"]
    ELSE [act |-> "return", url |-> "Provider '" \o prov \o "' not supported."]

\* the if/elif chain of validate_key: the GET to issue, or the error to return
validate_route(prov, endpoint) ==
    IF prov = "OpenAI" THEN [act |-> "get", url |-> "https://api.openai.com/v1/models"]
    ELSE IF prov = "Anthropic" THEN [act |-> "get", url |-> "https://api.anthropic.com/v1/models"]
    ELSE IF prov \in {"Azure OpenAI", "Azure OpenAI Key"}
    THEN IF Falsy(endpoint)
         THEN [act |-> "return", url |-> "Azure requires an endpoint URL."]
         ELSE [act |-> "get", url |-> RStrip(endpoint, "/") \o "/openai/models?api-version=2024-02-01"]
    ELSE [act |-> "return", url |-> "Provider '" \o prov \o "' not supported."]

\* a classification that accepts every 2xx status
is_valid_2xx(status_code) == status_code >= 200 /\ status_code < 300

\* resp.status_code == 200
is_valid(status_code) == status_code = 200

ProviderArgs ==
    {"OpenAI", "Anthropic", "Azure OpenAI", "Azure OpenAI Key", "Google Gemini",
     "Azure Endpoint", "openai", ""}

EndpointArgs == {None, "", "https://my-res.openai.azure.com", "https://my-res.openai.azure.com//"}

\* status codes a provider may answer with
StatusCodes == {200, 201, 204, 301, 400, 401, 403, 404, 429, 500, 503}

\* what str(e) is for the faults of the HTTP client
ClientFaults == {"timed out", "All connection attempts failed"}

\* validate_key up to the first await: the GET is issued, or an error is returned
CallValidateKey ==
    /\ pc = "idle"
    /\ \E prov \in ProviderArgs, endpoint \in EndpointArgs :
        /\ provider' = prov
        /\ azure_endpoint' = endpoint
        /\ LET route == validate_route(prov, endpoint)
           IN IF route.act = "get"
              THEN /\ requests' = Append(requests, route.url)
                   /\ pc' = "await_get"
                   /\ result' = result
              ELSE /\ requests' = requests
                   /\ pc' = "returned"
                   /\ result' = ErrorResult(route.url)
    /\ op' = "validate_key"
    /\ UNCHANGED <<value, masked, segs, text, findings, target, content, caught, fs, stack,
                   root, files, all_findings, opened, scanned, path, response>>

\* client.get returns a response
GetResponds ==
    /\ pc = "await_get"
    /\ \E status_code \in StatusCodes :
        /\ response' = Append(response, status_code)
        /\ result' = [kind |-> "validation", provider |-> provider,
                      is_valid |-> is_valid(status_code), status |-> status_code]
    /\ pc' = "returned"
    /\ UNCHANGED <<op, value, masked, segs, text, findings, target, content, caught, fs,
                   stack, root, files, all_findings, opened, scanned, path, provider,
                   azure_endpoint, requests>>

\* client.get raises; the except clause returns the error
GetRaises ==
    /\ pc = "await_get"
    /\ \E e \in ClientFaults : result' = ErrorResult(e)
    /\ pc' = "returned"
    /\ UNCHANGED <<op, value, masked, segs, text, findings, target, content, caught, fs,
                   stack, root, files, all_findings, opened, scanned, path, provider,
                   azure_endpoint, requests, response>>

(***************************************************************************)
(* smart_scan.                                                             *)
(***************************************************************************)
RejectLen == 10

\* a check that rejects empty content only
content_rejected_empty_only(c) == Falsy(c)

\* not content or len(content) < 10
content_rejected(c) == Falsy(c) \/ Len(c) < RejectLen

\* "github.com" in target.lower()
is_github(t) == Contains(Lower(t), "github.com")

TargetArgs ==
    {"https://github.com/x/y/blob/main/a.py", "https://GitHub.com/x/y/raw/main/.env",
     "/srv/project"}

\* what the sampling result's text may be
ContentSamples ==
    {None, "", "# empty", "x = 12345", "x = 123456", "404: Not Found",
     Segments[1].txt, Segments[2].txt, Segments[7].txt \o "\n" \o Segments[8].txt}

\* what str(e) is for the faults of the host's sampling
SampleFaults == {"Client does not support sampling", "Request timed out"}

\* smart_scan up to its first await
CallSmartScan ==
    /\ pc = "idle"
    /\ \E t \in TargetArgs :
        /\ is_github(t)
        /\ target' = t
    /\ op' = "smart_scan"
    /\ pc' = "await_info_detected"
    /\ UNCHANGED <<value, masked, segs, text, findings, content, caught, fs, stack, root,
                   files, all_findings, opened, scanned, path, provider, azure_endpoint,
                   requests, response, result>>

\* ctx.info("Detected GitHub URL ...") returns: ctx.sample is awaited
InfoDetectedReturns ==
    /\ pc = "await_info_detected"
    /\ pc' = "await_sample"
    /\ UNCHANGED <<op, value, masked, segs, text, findings, target, content, caught, fs,
                   stack, root, files, all_findings, opened, scanned, path, provider,
                   azure_endpoint, requests, response, result>>

\* ctx.info("Detected GitHub URL ...") raises, outside the try block
InfoDetectedRaises ==
    /\ pc = "await_info_detected"
    /\ pc' = "raised"
    /\ UNCHANGED <<op, value, masked, segs, text, findings, target, content, caught, fs,
                   stack, root, files, all_findings, opened, scanned, path, provider,
                   azure_endpoint, requests, response, result>>

\* ctx.sample returns: the content is taken and checked
SampleReturns ==
    /\ pc = "await_sample"
    /\ \E c \in ContentSamples :
        /\ content' = c
        /\ pc' = IF content_rejected(c) THEN "await_error_empty" ELSE "await_info_received"
    /\ UNCHANGED <<op, value, masked, segs, text, findings, target, caught, fs, stack,
                   root, files, all_findings, opened, scanned, path, provider,
                   azure_endpoint, requests, response, result>>

\* ctx.sample raises: the except clause reports it
SampleRaises ==
    /\ pc = "await_sample"
    /\ \E e \in SampleFaults : caught' = e
    /\ pc' = "await_error_failed"
    /\ UNCHANGED <<op, value, masked, segs, text, findings, target, content, fs, stack,
                   root, files, all_findings, opened, scanned, path, provider,
                   azure_endpoint, requests, response, result>>

\* ctx.error("The agent returned empty content.") returns
ErrorEmptyReturns ==
    /\ pc = "await_error_empty"
    /\ result' = ErrorResult("Failed to fetch remote content.")
    /\ pc' = "returned"
    /\ UNCHANGED <<op, value, masked, segs, text, findings, target, content, caught, fs,
                   stack, root, files, all_findings, opened, scanned, path, provider,
                   azure_endpoint, requests, response>>

\* ctx.info("Received content. Scanning...") returns: the content is scanned
InfoReceivedReturns ==
    /\ pc = "await_info_received"
    /\ scanned' = Append(scanned, target)
    /\ result' = [kind |-> "remote", source |-> "remote_github",
                  findings |-> perform_scan(content, target)]
    /\ pc' = "returned"
    /\ UNCHANGED <<op, value, masked, segs, text, findings, target, content, caught, fs,
                   stack, root, files, all_findings, opened, path, provider,
                   azure_endpoint, requests, response>>

\* a ctx call inside the try block raises: the except clause reports it
NotifyRaisesInTry ==
    /\ pc \in {"await_error_empty", "await_info_received"}
    /\ caught' = "notification failed"
    /\ pc' = "await_error_failed"
    /\ UNCHANGED <<op, value, masked, segs, text, findings, target, content, fs, stack,
                   root, files, all_findings, opened, scanned, path, provider,
                   azure_endpoint, requests, response, result>>

\* ctx.error("Sampling failed ...") returns in the except clause
ErrorFailedReturns ==
    /\ pc = "await_error_failed"
    /\ result' = ErrorResult(caught)
    /\ pc' = "returned"
    /\ UNCHANGED <<op, value, masked, segs, text, findings, target, content, caught, fs,
                   stack, root, files, all_findings, opened, scanned, path, provider,
                   azure_endpoint, requests, response>>

\* ctx.error("Sampling failed ...") raises in the except clause
ErrorFailedRaises ==
    /\ pc = "await_error_failed"
    /\ pc' = "raised"
    /\ UNCHANGED <<op, value, masked, segs, text, findings, target, content, caught, fs,
                   stack, root, files, all_findings, opened, scanned, path, provider,
                   azure_endpoint, requests, response, result>>

(***************************************************************************)
(* scan_directory.  A tree is [dirs, names, unreadable]: dirs is the set   *)
(* of its directories, each the sequence of directory names leading to it  *)
(* from base_path (<<>> is base_path itself); every directory holds the    *)
(* files names, in that order; open() raises for the names in unreadable.  *)
(***************************************************************************)
SCAN_EXTENSIONS == <<".py", ".js", ".ts", ".json", ".env", ".yaml", ".yml", ".txt", ".ini", ".md">>

\* the directory names the walk prunes
PRUNED_DIRS == {".git", "node_modules", "venv"}

\* a filter that lets every file through
is_scannable_any(file) == TRUE

\* file.endswith(SCAN_EXTENSIONS)
is_scannable(file) == \E k \in 1..Len(SCAN_EXTENSIONS) : EndsWith(file, SCAN_EXTENSIONS[k])

\* [d for d in dirs if d not in {".git", "node_modules", "venv"}]
prune(dirs) == SelectSeq(dirs, LAMBDA d : d \notin PRUNED_DIRS)

\* the order in which os.walk lists directory names
DirOrder == <<".git", "bin", "dist", "node_modules", "src", "venv", "__pycache__">>

DirNames == {DirOrder[i] : i \in 1..Len(DirOrder)}

RECURSIVE TreesUpTo(_)
\* the sets of directories with at most n directories below base_path
TreesUpTo(n) ==
    IF n = 0 THEN {{<<>>}}
    ELSE LET smaller == TreesUpTo(n - 1)
         IN smaller \cup UNION {{t \cup {Append(d, name)} : d \in t, name \in DirNames} : t \in smaller}

DirTrees == TreesUpTo(MaxDirs)

\* the files of a directory and those among them that cannot be read
Listings == {
    [names |-> <<>>, unreadable |-> {}],
    [names |-> <<"a.py", "b.png">>, unreadable |-> {}],
    [names |-> <<"locked.json", "a.py", "Makefile">>, unreadable |-> {"locked.json"}],
    [names |-> <<".env", "README.MD", "notes.md">>, unreadable |-> {"README.MD"}],
    [names |-> <<"a.yml", "b.ts", "c.txt">>, unreadable |-> {"a.yml", "c.txt"}]
}

\* the segments a file of the tree holds, one per line
FileSegs(file) ==
    IF file \in {"a.py", "b.png", "Makefile", "README.MD"} THEN <<2>>
    ELSE IF file = ".env" THEN <<7, 8>>
    ELSE IF file = "b.ts" THEN <<9>>
    ELSE <<1>>

\* f.read() for a file of the tree
FileContent(file) == JoinLines(FileSegs(file), 1)

PathArgs == {"/srv/project"}

RECURSIVE JoinPath(_, _)
\* os.path.join of the names d[k..] and file
JoinPath(d, file) == IF d = <<>> THEN file ELSE Head(d) \o "/" \o JoinPath(Tail(d), file)

\* os.path.relpath(file_path, base_path) for file in directory d
RelPath(d, file) == JoinPath(d, file)

\* the subdirectories of d, as os.walk lists them
SubDirs(tree, d) == SelectSeq(DirOrder, LAMBDA name : Append(d, name) \in tree.dirs)

\* an except clause that gives up the walk at the first file that cannot be read
except_read_error_abort(fnd, stk, fls, file) ==
    [all_findings |-> Append(fnd, [error |-> "Read error in " \o file \o ": Permission denied"]),
     stack |-> <<>>, files |-> <<>>]

\* the except clause of the file loop: an error entry is appended, the loop goes on
except_read_error(fnd, stk, fls, file) ==
    [all_findings |-> Append(fnd, [error |-> "Read error in " \o file \o ": Permission denied"]),
     stack |-> stk, files |-> Tail(fls)]

\* the entry of scan_directory(p): the path is resolved and looked up
EnterScanDirectory(p) ==
    /\ path' = p
    /\ op' = "scan_directory"
    /\ \/ /\ result' = ErrorResult("Path not found: " \o p)
          /\ pc' = "returned"
          /\ fs' = fs
       \/ /\ \E d \in DirTrees, l \in Listings :
                fs' = [dirs |-> d, names |-> l.names, unreadable |-> l.unreadable]
          /\ pc' = "await_info_start"
          /\ result' = result
       \/ /\ fs' = NoTree
          /\ pc' = "await_info_start"
          /\ result' = result

CallScanDirectory ==
    /\ pc = "idle"
    /\ \E p \in PathArgs : EnterScanDirectory(p)
    /\ UNCHANGED <<value, masked, segs, text, findings, target, content, caught, stack,
                   root, files, all_findings, opened, scanned, provider, azure_endpoint,
                   requests, response>>

\* smart_scan on a target without github.com: return await scan_directory(target, ctx).
\* The request goes on as the scan_directory call on that path.
CallSmartScanLocal ==
    /\ pc = "idle"
    /\ \E t \in TargetArgs :
        /\ ~is_github(t)
        /\ EnterScanDirectory(t)
    /\ UNCHANGED <<value, masked, segs, text, findings, target, content, caught, stack,
                   root, files, all_findings, opened, scanned, provider, azure_endpoint,
                   requests, response>>

\* ctx.info("Starting local scan ...") returns: os.walk starts at base_path
InfoStartReturns ==
    /\ pc = "await_info_start"
    /\ stack' = IF fs.dirs = {} THEN <<>> ELSE << <<>> >>
    /\ pc' = "walk"
    /\ UNCHANGED <<op, value, masked, segs, text, findings, target, content, caught,
                   fs, root, files, all_findings, opened, scanned, path, provider,
                   azure_endpoint, requests, response, result>>

\* ctx.info("Starting local scan ...") raises; no try block encloses it
InfoStartRaises ==
    /\ pc = "await_info_start"
    /\ pc' = "raised"
    /\ UNCHANGED <<op, value, masked, segs, text, findings, target, content, caught, fs,
                   stack, root, files, all_findings, opened, scanned, path, provider,
                   azure_endpoint, requests, response, result>>

\* os.walk yields the next (root, dirs, files); dirs is pruned in place
WalkDir ==
    /\ pc = "walk"
    /\ files = <<>>
    /\ stack # <<>>
    /\ LET d == Head(stack)
           kept == prune(SubDirs(fs, d))
       IN /\ root' = d
          /\ files' = fs.names
          /\ stack' = [i \in 1..Len(kept) |-> Append(d, kept[i])] \o Tail(stack)
    /\ UNCHANGED <<pc, op, value, masked, segs, text, findings, target, content, caught,
                   fs, all_findings, opened, scanned, path, provider, azure_endpoint,
                   requests, response, result>>

\* one iteration of "for file in files" on a file that is not scanned
SkipFile ==
    /\ pc = "walk"
    /\ files # <<>>
    /\ ~is_scannable(Head(files))
    /\ files' = Tail(files)
    /\ UNCHANGED <<pc, op, value, masked, segs, text, findings, target, content, caught,
                   fs, stack, root, all_findings, opened, scanned, path, provider,
                   azure_endpoint, requests, response, result>>

\* one iteration on a file that is opened, read and scanned
ReadFile ==
    /\ pc = "walk"
    /\ files # <<>>
    /\ is_scannable(Head(files))
    /\ Head(files) \notin fs.unreadable
    /\ opened' = Append(opened, [dir |-> root, file |-> Head(files)])
    /\ scanned' = Append(scanned, RelPath(root, Head(files)))
    /\ all_findings' = all_findings \o perform_scan(FileContent(Head(files)), RelPath(root, Head(files)))
    /\ files' = Tail(files)
    /\ UNCHANGED <<pc, op, value, masked, segs, text, findings, target, content, caught,
                   fs, stack, root, path, provider, azure_endpoint, requests, response,
                   result>>

\* one iteration on a file whose open raises
ReadFileRaises ==
    /\ pc = "walk"
    /\ files # <<>>
    /\ is_scannable(Head(files))
    /\ Head(files) \in fs.unreadable
    /\ opened' = Append(opened, [dir |-> root, file |-> Head(files)])
    /\ LET after == except_read_error(all_findings, stack, files, Head(files))
       IN /\ all_findings' = after.all_findings
          /\ stack' = after.stack
          /\ files' = after.files
    /\ UNCHANGED <<pc, op, value, masked, segs, text, findings, target, content, caught,
                   fs, root, scanned, path, provider, azure_endpoint, requests, response,
                   result>>

\* the walk is over: the report is returned
WalkReturns ==
    /\ pc = "walk"
    /\ files = <<>>
    /\ stack = <<>>
    /\ result' = [kind |-> "report", total |-> Len(all_findings), findings |-> all_findings]
    /\ pc' = "returned"
    /\ UNCHANGED <<op, value, masked, segs, text, findings, target, content, caught, fs,
                   stack, root, files, all_findings, opened, scanned, path, provider,
                   azure_endpoint, requests, response>>

\* the host takes the result; the server is ready for the next request
Finish ==
    /\ pc \in {"returned", "raised"}
    /\ pc' = "idle"
    /\ op' = "none"
    /\ value' = ""
    /\ masked' = ""
    /\ segs' = <<>>
    /\ text' = ""
    /\ findings' = <<>>
    /\ target' = ""
    /\ content' = None
    /\ caught' = ""
    /\ fs' = NoTree
    /\ stack' = <<>>
    /\ root' = <<>>
    /\ files' = <<>>
    /\ all_findings' = <<>>
    /\ opened' = <<>>
    /\ scanned' = <<>>
    /\ path' = ""
    /\ provider' = ""
    /\ azure_endpoint' = None
    /\ requests' = <<>>
    /\ response' = <<>>
    /\ result' = NoResult

Next ==
    \/ CallMaskValue
    \/ CallPerformScan
    \/ CallValidateKey
    \/ GetResponds
    \/ GetRaises
    \/ CallSmartScan
    \/ InfoDetectedReturns
    \/ InfoDetectedRaises
    \/ SampleReturns
    \/ SampleRaises
    \/ ErrorEmptyReturns
    \/ InfoReceivedReturns
    \/ NotifyRaisesInTry
    \/ ErrorFailedReturns
    \/ ErrorFailedRaises
    \/ CallScanDirectory
    \/ CallSmartScanLocal
    \/ InfoStartReturns
    \/ InfoStartRaises
    \/ WalkDir
    \/ SkipFile
    \/ ReadFile
    \/ ReadFileRaises
    \/ WalkReturns
    \/ Finish

Spec == Init /\ [][Next]_vars

(***************************************************************************)
(* Properties.                                                             *)
(***************************************************************************)
ProviderNames == {PATTERNS[k].provider : k \in 1..Len(PATTERNS)}

RECURSIVE ExpectedHits(_, _, _)
\* the (provider, captured text) pairs for provider p held by segments ss[k..]
ExpectedHits(p, ss, k) ==
    IF k > Len(ss) THEN <<>>
    ELSE SelectSeq(Segments[ss[k]].hits, LAMBDA h : h.provider = p) \o ExpectedHits(p, ss, k + 1)

\* the (provider, raw_value) pairs of the findings for provider p, in order
ReportedHits(p, fnd) ==
    LET sel == SelectSeq(fnd, LAMBDA f : f.provider = p)
    IN [i \in 1..Len(sel) |-> Hit(sel[i].provider, sel[i].raw_value)]

\* C9: perform_scan reports, for every rule of the registry, every occurrence
\* the text holds for that rule, in text order, under the rule's provider name
\* and with raw_value the rule's capture group (the hex string for the Azure
\* key rule, the whole match otherwise); nothing else is reported.
C9_AllOccurrencesReported ==
    (op = "perform_scan" /\ pc = "returned") =>
        /\ \A p \in ProviderNames : ReportedHits(p, findings) = ExpectedHits(p, segs, 1)
        /\ \A i \in 1..Len(findings) :
            findings[i].provider \in ProviderNames /\ findings[i].file = "input"

\* a scanned text with two occurrences for one provider and one for another
C9_Witness ==
    /\ op = "perform_scan" /\ pc = "returned"
    /\ Len(ReportedHits("OpenAI", findings)) >= 2
    /\ Len(ReportedHits("Azure OpenAI Key", findings)) >= 1

\* value masked by the policy: unchanged up to 12 characters, else first 8, "...", last 4
MaskedAsSpecified(raw, m) ==
    IF Len(raw) <= 12
    THEN m = raw
    ELSE /\ Len(m) = 15
         /\ SubSeq(m, 1, 8) = SubSeq(raw, 1, 8)
         /\ SubSeq(m, 9, 11) = "..."
         /\ SubSeq(m, 12, 15) = SubSeq(raw, Len(raw) - 3, Len(raw))

\* C10: masked_value is a function of raw_value alone: raw_value itself when it
\* has at most 12 characters, else its first 8 characters, "...", its last 4.
C10_MaskedFromRaw ==
    /\ (op = "mask_value" /\ pc = "returned") => MaskedAsSpecified(value, masked)
    /\ \A i \in 1..Len(findings) :
        MaskedAsSpecified(findings[i].raw_value, findings[i].masked_value)
    /\ \A i \in 1..Len(all_findings) :
        "provider" \in DOMAIN all_findings[i] =>
            MaskedAsSpecified(all_findings[i].raw_value, all_findings[i].masked_value)
    /\ "findings" \in DOMAIN result =>
        \A i \in 1..Len(result.findings) :
            "provider" \in DOMAIN result.findings[i] =>
                MaskedAsSpecified(result.findings[i].raw_value, result.findings[i].masked_value)

\* a value of 12 characters returned unmasked
C10_Witness ==
    /\ op = "mask_value" /\ pc = "returned"
    /\ Len(value) = 12 /\ masked = value

\* the providers and endpoints for which a probe is to be made
ProbeExpected ==
    \/ provider \in {"OpenAI", "Anthropic"}
    \/ provider \in {"Azure OpenAI", "Azure OpenAI Key"} /\ azure_endpoint \notin {None, ""}

\* C4: a validate_key call issues exactly one GET for OpenAI, Anthropic and Azure
\* with a non-empty endpoint, and otherwise issues none and returns an error.
C4_OneProbeOrNone ==
    op = "validate_key" =>
        /\ Len(requests) <= 1
        /\ pc = "returned" =>
            IF ProbeExpected
            THEN Len(requests) = 1
            ELSE requests = <<>> /\ result.kind = "error"

\* an Azure call without endpoint returned its error without a request
C4_Witness ==
    /\ op = "validate_key" /\ pc = "returned"
    /\ provider = "Azure OpenAI" /\ azure_endpoint = None
    /\ requests = <<>> /\ result.kind = "error"

\* C5: when the probe got a response, is_valid is true exactly for status 200
\* and the result records the status of that response.
C5_ValidIff200 ==
    (op = "validate_key" /\ pc = "returned" /\ response # <<>>) =>
        /\ result.kind = "validation"
        /\ result.is_valid = (response[1] = 200)
        /\ result.status = response[1]

\* a 401 response reported as invalid with status 401
C5_Witness ==
    /\ op = "validate_key" /\ pc = "returned"
    /\ response = <<401>> /\ result.is_valid = FALSE /\ result.status = 401

\* C6: on a target holding github.com, content that is absent, empty or shorter
\* than 10 characters gives an error and perform_scan is not run; a result with
\* a findings list is returned only for content of at least 10 characters.
C6_ShortContentIsError ==
    (op = "smart_scan" /\ Contains(target, "github.com")) =>
        /\ (content \in {None, ""} \/ Len(content) < 10) =>
            /\ scanned = <<>>
            /\ pc = "returned" => result.kind = "error"
        /\ (pc = "returned" /\ "findings" \in DOMAIN result) =>
            content # None /\ Len(content) >= 10

\* content of 9 characters was received and the error returned
C6_Witness ==
    /\ op = "smart_scan" /\ pc = "returned" /\ Contains(target, "github.com")
    /\ content # None /\ Len(content) = 9
    /\ result.kind = "error" /\ scanned = <<>>

\* C7: no fault escapes a tool: a request never ends with an exception raised to the host.
C7_NoFaultEscapes == pc # "raised"

\* the entries of a findings list that are located credentials / read errors
Credentials(fnd) == SelectSeq(fnd, LAMBDA f : "provider" \in DOMAIN f)
ErrorEntries(fnd) == SelectSeq(fnd, LAMBDA f : "error" \in DOMAIN f)

\* the walk of scan_directory has returned its report
ReportReturned == op = "scan_directory" /\ pc = "returned" /\ result.kind = "report"

\* the set of open() calls made
Opened == {opened[i] : i \in 1..Len(opened)}

\* the directory names to prune
ExcludedNames == {".git", "node_modules", "venv", "bin", "__pycache__", "dist"}

\* d lies in or below a directory with an excluded name
UnderExcluded(d) == \E k \in 1..Len(d) : d[k] \in ExcludedNames

\* C1: no file under a directory named .git, node_modules, venv, bin,
\* __pycache__ or dist, at any depth, is ever opened.
C1_ExcludedNeverOpened == \A o \in Opened : ~UnderExcluded(o.dir)

\* the recognized extensions
RecognizedExtensions == {".py", ".js", ".ts", ".json", ".env", ".yaml", ".yml", ".txt", ".ini", ".md"}

HasRecognizedExtension(file) == \E e \in RecognizedExtensions : EndsWith(file, e)

\* C2: a file is opened only if its name ends with a recognized extension; any
\* other file adds no finding and no error entry: every credential entry names
\* an opened file, and there are no more error entries than failed opens.
C2_OnlyRecognizedOpened ==
    /\ \A o \in Opened : HasRecognizedExtension(o.file)
    /\ \A i \in 1..Len(all_findings) :
        "provider" \in DOMAIN all_findings[i] =>
            \E o \in Opened : all_findings[i].file = RelPath(o.dir, o.file)
    /\ Len(ErrorEntries(all_findings)) <= Cardinality({o \in Opened : o.file \in fs.unreadable})

\* a report returned for a tree whose directories hold b.png next to a.py
C2_Witness ==
    /\ ReportReturned
    /\ fs.names = <<"a.py", "b.png">>
    /\ Cardinality(fs.dirs) > 1
    /\ Opened # {}

\* the files of the tree the scan has to read: recognized extension, not under an excluded name
EligibleFiles ==
    {[dir |-> d, file |-> fs.names[k]] :
        <<d, k>> \in {c \in fs.dirs \X (1..Len(fs.names)) :
                        ~UnderExcluded(c[1]) /\ HasRecognizedExtension(fs.names[c[2]])}}

\* C3: a file that cannot be read does not stop the walk: in the report every
\* eligible file of the tree was opened, there is one error entry per file
\* whose open failed, and the findings of every file read are all there.
C3_ReadFailureIsolated ==
    ReportReturned =>
        /\ EligibleFiles \subseteq Opened
        /\ Len(ErrorEntries(result.findings)) =
             Cardinality({o \in Opened : o.file \in fs.unreadable})
        /\ \A o \in Opened :
             o.file \notin fs.unreadable =>
                \A p \in ProviderNames :
                    ReportedHits(p, SelectSeq(Credentials(result.findings),
                                              LAMBDA f : f.file = RelPath(o.dir, o.file)))
                      = ExpectedHits(p, FileSegs(o.file), 1)

\* a report with an error entry for locked.json and findings of a.py read after it,
\* in a tree with several directories
C3_Witness ==
    /\ ReportReturned
    /\ "locked.json" \in fs.unreadable
    /\ Cardinality(fs.dirs) > 2
    /\ Len(ErrorEntries(result.findings)) >= 2
    /\ Len(Credentials(result.findings)) >= 2

\* C8: in every report the total is the number of located credentials, and
\* the findings hold no error entry.
C8_TotalCountsFindings ==
    ReportReturned =>
        /\ result.total = Len(Credentials(result.findings))
        /\ ErrorEntries(result.findings) = <<>>

====
